---- MODULE Spec2Model ----
(***************************************************************************)
(* Day 9 part 2 (src/day09/part2.py): the largest rectangle whose two      *)
(* opposite corners are red tiles and whose tiles are all red or green.    *)
(*                                                                         *)
(* A point is a pair <<x, y>>.  red_tiles is the list parse_coordinates    *)
(* builds, one point per input line; it is also the polygon, point i       *)
(* joined to point i+1 and the last to the first.  Python's 0-based index  *)
(* k is position k+1 of the TLA+ sequence.                                 *)
(***************************************************************************)
EXTENDS Integers, Sequences, FiniteSets

\* Largest coordinate of an enumerated input line (coordinates are 0..MaxCoord).
MaxCoord == 2
\* Largest number of lines of an enumerated input file.
MaxLen == 4

VARIABLES
    red_tiles,      \* the list of red tiles read so far / the polygon
    pc,             \* where the run is
    green_edges,    \* find_largest_valid_rectangle: build_edge_tiles(red_tiles)
    red_set,        \* find_largest_valid_rectangle: set(red_tiles)
    bbox,           \* find_largest_valid_rectangle: (min_x, max_x, min_y, max_y)
    i, j,           \* find_largest_valid_rectangle: the pair examined next
    max_area,       \* find_largest_valid_rectangle: best area so far
    result,         \* the value find_largest_valid_rectangle returned
    q,              \* the arguments of the last point or rectangle query
    ans             \* what the queried functions returned

vars == <<red_tiles, pc, green_edges, red_set, bbox, i, j, max_area, result, q, ans>>

Coords == 0..MaxCoord

\* bbox=None
None == <<>>

Min(a, b) == IF a <= b THEN a ELSE b
Max(a, b) == IF a >= b THEN a ELSE b
Abs(a) == IF a >= 0 THEN a ELSE -a
SetMin(S) == CHOOSE m \in S : \A s \in S : m <= s
SetMax(S) == CHOOSE m \in S : \A s \in S : m >= s

\* range(a, b) of Python: a, a+1, ..., b-1
Range(a, b) == a..(b - 1)

\* red_tiles[(k + 1) % n] for the 0-based k = idx - 1
NextTile(tiles, idx) == tiles[(idx % Len(tiles)) + 1]

(***************************************************************************)
(* The inputs.  The fixtures are whole files; the other inputs are read    *)
(* line by line from the grid.                                             *)
(***************************************************************************)

\* The puzzle's published example (largest valid rectangle: 24).
ExamplePolygon ==
    << <<7,1>>, <<11,1>>, <<11,7>>, <<9,7>>, <<9,5>>, <<2,5>>, <<2,3>>, <<7,3>> >>

\* A square room reached from outside through a slit one tile wide: the room's
\* walls are edges of the polygon, the room's inner tiles are outside it.
ChamberPolygon ==
    << <<0,0>>, <<5,0>>, <<5,1>>, <<1,1>>, <<1,4>>, <<4,4>>, <<4,2>>, <<5,2>>,
       <<5,5>>, <<0,5>> >>

\* A rectangle with a notch one tile wide cut into its lower side: every tile
\* of the rectangle is red or green, the notch's corners are inside it.
NotchPolygon ==
    << <<0,0>>, <<1,0>>, <<1,1>>, <<2,1>>, <<2,0>>, <<3,0>>, <<3,2>>, <<0,2>> >>

\* Three collinear red points, the degenerate polygon of the spec's scenario.
CollinearPolygon == << <<0,0>>, <<2,0>>, <<1,0>> >>

\* A square whose first line is written twice: a zero-length edge.
RepeatedLineSquare == << <<0,0>>, <<0,0>>, <<2,0>>, <<2,2>>, <<0,2>> >>

Fixtures ==
    {ExamplePolygon, ChamberPolygon, NotchPolygon, CollinearPolygon,
     RepeatedLineSquare}

(***************************************************************************)
(* The pure functions of part2.py.                                         *)
(***************************************************************************)

\* EdgeTiles with the ranges closed at both ends: the endpoints are added too.
EdgeTilesWithEndpoints(a, b) ==
    IF a[1] = b[1]
    THEN {<<a[1], y>> : y \in Range(Min(a[2], b[2]), Max(a[2], b[2]) + 1)}
    ELSE {<<x, a[2]>> : x \in Range(Min(a[1], b[1]), Max(a[1], b[1]) + 1)}

\* One iteration of build_edge_tiles' loop: the tiles strictly between a and b.
EdgeTiles(a, b) ==
    IF a[1] = b[1]
    THEN {<<a[1], y>> : y \in Range(Min(a[2], b[2]) + 1, Max(a[2], b[2]))}
    ELSE {<<x, a[2]>> : x \in Range(Min(a[1], b[1]) + 1, Max(a[1], b[1]))}

\* build_edge_tiles without the wrap-around: the closing edge is left out.
build_edge_tiles_no_wrap(tiles) ==
    UNION {EdgeTiles(tiles[k], tiles[k + 1]) : k \in 1..(Len(tiles) - 1)}

build_edge_tiles(tiles) ==
    UNION {EdgeTiles(tiles[k], NextTile(tiles, k)) : k \in 1..Len(tiles)}

\* Straddles with the first comparison not strict: (y1 >= y) != (y2 > y)
StraddlesNotStrict(point, a, b) == (a[2] >= point[2]) # (b[2] > point[2])

\* (y1 > y) != (y2 > y)
Straddles(point, a, b) == (a[2] > point[2]) # (b[2] > point[2])

\* x < (x2 - x1) * (y - y1) / (y2 - y1) + x1, evaluated exactly: both sides are
\* multiplied by the divisor y2 - y1, which flips the comparison when negative.
\* With a zero divisor Python raises instead (see ray_cast_raises).
LeftOfIntersection(point, a, b) ==
    LET d == b[2] - a[2]
        num == (b[1] - a[1]) * (point[2] - a[2])
        lhs == (point[1] - a[1]) * d
    IN  IF d > 0 THEN lhs < num
        ELSE IF d < 0 THEN lhs > num
        ELSE FALSE

\* The edges (by the position of their first vertex) that toggle `inside`.
TogglingEdges(point, polygon) ==
    {k \in 1..Len(polygon) :
        /\ Straddles(point, polygon[k], NextTile(polygon, k))
        /\ LeftOfIntersection(point, polygon[k], NextTile(polygon, k))}

\* The divisors y2 - y1 the loop evaluates: `and` evaluates the division only
\* when the straddle test is true.
EvaluatedDivisors(point, polygon) ==
    {NextTile(polygon, k)[2] - polygon[k][2] :
        k \in {e \in 1..Len(polygon) :
                  Straddles(point, polygon[e], NextTile(polygon, e))}}

\* ZeroDivisionError out of is_point_inside_polygon
ray_cast_raises(point, polygon) == 0 \in EvaluatedDivisors(point, polygon)

\* `inside` starts False and is negated once per toggling edge.
is_point_inside_polygon(point, polygon) ==
    Cardinality(TogglingEdges(point, polygon)) % 2 = 1

\* is_tile_valid unpacking the box as (min_x, min_y, max_x, max_y)
is_tile_valid_box_misread(point, red_tiles_set, edges, polygon, box) ==
    IF point \in red_tiles_set \/ point \in edges THEN TRUE
    ELSE IF /\ box # None
            /\ \/ point[1] < box[1] \/ point[1] > box[3]
               \/ point[2] < box[2] \/ point[2] > box[4]
         THEN FALSE
         ELSE is_point_inside_polygon(point, polygon)

is_tile_valid(point, red_tiles_set, edges, polygon, box) ==
    IF point \in red_tiles_set \/ point \in edges THEN TRUE
    ELSE IF /\ box # None
            /\ \/ point[1] < box[1] \/ point[1] > box[2]
               \/ point[2] < box[3] \/ point[2] > box[4]
         THEN FALSE
         ELSE is_point_inside_polygon(point, polygon)

\* calculate_rectangle_area without abs()
calculate_rectangle_area_no_abs(p1, p2) ==
    LET width == (p2[1] - p1[1]) + 1
        height == (p2[2] - p1[2]) + 1
    IN  width * height

calculate_rectangle_area(p1, p2) ==
    LET width == Abs(p2[1] - p1[1]) + 1
        height == Abs(p2[2] - p1[2]) + 1
    IN  width * height

is_rectangle_valid(p1, p2, red_tiles_set, edges, polygon) ==
    LET min_x == Min(p1[1], p2[1])
        max_x == Max(p1[1], p2[1])
        min_y == Min(p1[2], p2[2])
        max_y == Max(p1[2], p2[2])
    IN  \A x \in Range(min_x, max_x + 1) : \A y \in Range(min_y, max_y + 1) :
            is_tile_valid(<<x, y>>, red_tiles_set, edges, polygon, None)

is_rectangle_valid_boundary_only(p1, p2, red_tiles_set, edges, polygon, box) ==
    LET min_x == Min(p1[1], p2[1])
        max_x == Max(p1[1], p2[1])
        min_y == Min(p1[2], p2[2])
        max_y == Max(p1[2], p2[2])
    IN  /\ \A x \in Range(min_x, max_x + 1) :
              is_tile_valid(<<x, min_y>>, red_tiles_set, edges, polygon, box)
        /\ \A x \in Range(min_x, max_x + 1) :
              is_tile_valid(<<x, max_y>>, red_tiles_set, edges, polygon, box)
        /\ \A y \in Range(min_y + 1, max_y) :
              is_tile_valid(<<min_x, y>>, red_tiles_set, edges, polygon, box)
        /\ \A y \in Range(min_y + 1, max_y) :
              is_tile_valid(<<max_x, y>>, red_tiles_set, edges, polygon, box)

\* is_point_in_rectangle with <= for <: the boundary counts as inside
is_point_in_rectangle_closed(point, corner1, corner2) ==
    LET min_x == Min(corner1[1], corner2[1])
        max_x == Max(corner1[1], corner2[1])
        min_y == Min(corner1[2], corner2[2])
        max_y == Max(corner1[2], corner2[2])
    IN  /\ min_x <= point[1] /\ point[1] <= max_x
        /\ min_y <= point[2] /\ point[2] <= max_y

is_point_in_rectangle(point, corner1, corner2) ==
    LET min_x == Min(corner1[1], corner2[1])
        max_x == Max(corner1[1], corner2[1])
        min_y == Min(corner1[2], corner2[2])
        max_y == Max(corner1[2], corner2[2])
    IN  /\ min_x < point[1] /\ point[1] < max_x
        /\ min_y < point[2] /\ point[2] < max_y

\* set(red_tiles)
TileSet(tiles) == {tiles[k] : k \in 1..Len(tiles)}

\* (min_x, max_x, min_y, max_y) of a non-empty list
BoundingBox(tiles) ==
    << SetMin({tiles[k][1] : k \in 1..Len(tiles)}),
       SetMax({tiles[k][1] : k \in 1..Len(tiles)}),
       SetMin({tiles[k][2] : k \in 1..Len(tiles)}),
       SetMax({tiles[k][2] : k \in 1..Len(tiles)}) >>

\* ExaminePairBody without the `area <= max_area` skip.
ExaminePairBodyNoSkip(tiles, rset, edges, box, a, b, best) ==
    LET area == calculate_rectangle_area(tiles[a + 1], tiles[b + 1])
        has_red_inside ==
            \E k \in Range(0, Len(tiles)) :
                /\ k \notin {a, b}
                /\ is_point_in_rectangle(tiles[k + 1], tiles[a + 1], tiles[b + 1])
    IN  IF has_red_inside THEN best
        ELSE IF is_rectangle_valid_boundary_only(
                    tiles[a + 1], tiles[b + 1], rset, edges, tiles, box)
             THEN area
             ELSE best

\* The body of the pair loop for the 0-based pair (a, b): the new max_area.
ExaminePairBody(tiles, rset, edges, box, a, b, best) ==
    LET area == calculate_rectangle_area(tiles[a + 1], tiles[b + 1])
        has_red_inside ==
            \E k \in Range(0, Len(tiles)) :
                /\ k \notin {a, b}
                /\ is_point_in_rectangle(tiles[k + 1], tiles[a + 1], tiles[b + 1])
    IN  IF area <= best THEN best
        ELSE IF has_red_inside THEN best
        ELSE IF is_rectangle_valid_boundary_only(
                    tiles[a + 1], tiles[b + 1], rset, edges, tiles, box)
             THEN area
             ELSE best

\* The pair the two nested range loops visit after (a, b); <<n, n>> after the last.
NextPair(a, b, n) ==
    IF b + 1 < n THEN <<a, b + 1>>
    ELSE IF a + 2 < n THEN <<a + 1, a + 2>>
    ELSE <<n, n>>

RECURSIVE PairLoop(_, _, _, _, _, _, _)
PairLoop(tiles, rset, edges, box, a, b, best) ==
    IF b >= Len(tiles) THEN best
    ELSE LET nxt == NextPair(a, b, Len(tiles))
         IN  PairLoop(tiles, rset, edges, box, nxt[1], nxt[2],
                      ExaminePairBody(tiles, rset, edges, box, a, b, best))

\* The whole function on a non-empty list (the empty list raises ValueError).
find_largest_valid_rectangle(tiles) ==
    PairLoop(tiles, TileSet(tiles), build_edge_tiles(tiles), BoundingBox(tiles),
             0, 1, 0)

(***************************************************************************)
(* The run: parse_coordinates, then find_largest_valid_rectangle.          *)
(***************************************************************************)

NoQuery == [kind |-> "none"]

Init ==
    /\ red_tiles \in {<< >>} \cup Fixtures
    /\ pc = "parse"
    /\ green_edges = {}
    /\ red_set = {}
    /\ bbox = None
    /\ i = 0
    /\ j = 0
    /\ max_area = 0
    /\ result = 0
    /\ q = NoQuery
    /\ ans = NoQuery

\* parse_coordinates reads one more line "x,y".  The enumerated files keep the
\* input invariant for the pairs the parser sees: each line shares an x or a y
\* with the line before it (the closing pair is free).
ParseLine ==
    /\ pc = "parse"
    /\ Len(red_tiles) < MaxLen
    /\ \E x \in Coords, y \in Coords :
        /\ IF red_tiles = << >> THEN TRUE
           ELSE x = red_tiles[Len(red_tiles)][1] \/ y = red_tiles[Len(red_tiles)][2]
        /\ red_tiles' = Append(red_tiles, <<x, y>>)
    /\ UNCHANGED <<pc, green_edges, red_set, bbox, i, j, max_area, result, q, ans>>

\* find_largest_valid_rectangle up to its pair loop; min() of an empty
\* generator raises ValueError.
StartSearch ==
    /\ pc = "parse"
    /\ IF red_tiles = << >>
       THEN /\ pc' = "error"
            /\ green_edges' = build_edge_tiles(red_tiles)
            /\ red_set' = TileSet(red_tiles)
            /\ UNCHANGED <<bbox, i, j, max_area>>
       ELSE /\ pc' = "search"
            /\ green_edges' = build_edge_tiles(red_tiles)
            /\ red_set' = TileSet(red_tiles)
            /\ bbox' = BoundingBox(red_tiles)
            /\ max_area' = 0
            /\ i' = 0
            /\ j' = 1
    /\ UNCHANGED <<red_tiles, result, q, ans>>

\* One iteration of the inner loop.
ExaminePair ==
    /\ pc = "search"
    /\ j < Len(red_tiles)
    /\ max_area' = ExaminePairBody(red_tiles, red_set, green_edges, bbox, i, j, max_area)
    /\ i' = NextPair(i, j, Len(red_tiles))[1]
    /\ j' = NextPair(i, j, Len(red_tiles))[2]
    /\ UNCHANGED <<red_tiles, pc, green_edges, red_set, bbox, result, q, ans>>

\* return max_area
ReturnMaxArea ==
    /\ pc = "search"
    /\ j >= Len(red_tiles)
    /\ result' = max_area
    /\ pc' = "done"
    /\ UNCHANGED <<red_tiles, green_edges, red_set, bbox, i, j, max_area, q, ans>>

Next ==
    \/ ParseLine
    \/ StartSearch
    \/ ExaminePair
    \/ ReturnMaxArea

Spec == Init /\ [][Next]_vars

(***************************************************************************)
(* The functions called on their own, as the repository's tests call them. *)
(***************************************************************************)

\* The lattice points of the polygon's bounding box and of the ring around it.
QueryPoints(tiles) ==
    IF tiles = << >> THEN {}
    ELSE LET box == BoundingBox(tiles)
         IN  ((box[1] - 1)..(box[2] + 1)) \X ((box[3] - 1)..(box[4] + 1))

\* The lattice points of the polygon's bounding box.
CornerPoints(tiles) ==
    IF tiles = << >> THEN {}
    ELSE LET box == BoundingBox(tiles)
         IN  (box[1]..box[2]) \X (box[3]..box[4])

\* The input invariant of the data model: every pair of consecutive points,
\* the closing pair included, shares an x or a y.
CyclicAxisAligned(tiles) ==
    \A k \in 1..Len(tiles) :
        \/ tiles[k][1] = NextTile(tiles, k)[1]
        \/ tiles[k][2] = NextTile(tiles, k)[2]

\* build_edge_tiles(red_tiles) and set(red_tiles)
BuildEdgeTiles ==
    /\ pc = "parse"
    /\ green_edges' = build_edge_tiles(red_tiles)
    /\ red_set' = TileSet(red_tiles)
    /\ pc' = "built"
    /\ UNCHANGED <<red_tiles, bbox, i, j, max_area, result, q, ans>>

\* is_point_inside_polygon(p, red_tiles) and is_tile_valid(p, ...) with and
\* without the bounding box, on a polygon that keeps the input invariant.
ClassifyTile ==
    /\ pc = "built"
    /\ red_tiles # << >>
    /\ CyclicAxisAligned(red_tiles)
    /\ bbox' = BoundingBox(red_tiles)
    /\ \E p \in QueryPoints(red_tiles) :
        /\ q' = [kind |-> "tile", point |-> p]
        /\ ans' = [kind |-> "tile",
                   raises |-> ray_cast_raises(p, red_tiles),
                   divisors |-> EvaluatedDivisors(p, red_tiles),
                   toggles |-> TogglingEdges(p, red_tiles),
                   inside |-> is_point_inside_polygon(p, red_tiles),
                   with_bbox |-> is_tile_valid(p, red_set, green_edges, red_tiles,
                                               BoundingBox(red_tiles)),
                   without_bbox |-> is_tile_valid(p, red_set, green_edges, red_tiles,
                                                  None)]
    /\ pc' = "classified"
    /\ UNCHANGED <<red_tiles, green_edges, red_set, i, j, max_area, result>>

NextTile_ ==
    \/ ParseLine
    \/ BuildEdgeTiles
    \/ ClassifyTile

SpecTile == Init /\ [][NextTile_]_vars

\* is_rectangle_valid(p1, p2, ...) and is_rectangle_valid_boundary_only(p1, p2, ...)
\* on a polygon that keeps the input invariant.
ValidateRectangle ==
    /\ pc = "built"
    /\ red_tiles # << >>
    /\ CyclicAxisAligned(red_tiles)
    /\ bbox' = BoundingBox(red_tiles)
    /\ \E p1 \in CornerPoints(red_tiles), p2 \in CornerPoints(red_tiles) :
        /\ q' = [kind |-> "rectangle", p1 |-> p1, p2 |-> p2]
        /\ ans' = [kind |-> "rectangle",
                   full |-> is_rectangle_valid(p1, p2, red_set, green_edges, red_tiles),
                   boundary |-> is_rectangle_valid_boundary_only(
                                    p1, p2, red_set, green_edges, red_tiles, None),
                   boundary_bbox |-> is_rectangle_valid_boundary_only(
                                    p1, p2, red_set, green_edges, red_tiles,
                                    BoundingBox(red_tiles))]
    /\ pc' = "validated"
    /\ UNCHANGED <<red_tiles, green_edges, red_set, i, j, max_area, result>>

NextRect ==
    \/ ParseLine
    \/ BuildEdgeTiles
    \/ ValidateRectangle

SpecRect == Init /\ [][NextRect]_vars

\* The points the two geometry helpers are called on: the grid and the row and
\* column of negative coordinates beside it.
GeomPoints == ((-1)..MaxCoord) \X ((-1)..MaxCoord)

\* is_point_in_rectangle(p, c1, c2)
PointInRectangle ==
    /\ pc = "parse"
    /\ red_tiles = << >>
    /\ \E p \in GeomPoints, c1 \in GeomPoints, c2 \in GeomPoints :
        /\ q' = [kind |-> "in_rectangle", point |-> p, corner1 |-> c1, corner2 |-> c2]
        /\ ans' = [kind |-> "in_rectangle",
                   value |-> is_point_in_rectangle(p, c1, c2)]
    /\ pc' = "answered"
    /\ UNCHANGED <<red_tiles, green_edges, red_set, bbox, i, j, max_area, result>>

\* calculate_rectangle_area(p1, p2)
RectangleArea ==
    /\ pc = "parse"
    /\ red_tiles = << >>
    /\ \E p1 \in GeomPoints, p2 \in GeomPoints :
        /\ q' = [kind |-> "area", p1 |-> p1, p2 |-> p2]
        /\ ans' = [kind |-> "area", value |-> calculate_rectangle_area(p1, p2)]
    /\ pc' = "answered"
    /\ UNCHANGED <<red_tiles, green_edges, red_set, bbox, i, j, max_area, result>>

InitGeom == Init /\ red_tiles = << >>

NextGeom ==
    \/ PointInRectangle
    \/ RectangleArea

SpecGeom == InitGeom /\ [][NextGeom]_vars

(***************************************************************************)
(* What the claims speak of, stated apart from the code.                   *)
(***************************************************************************)

\* The lattice points of the closed segment from a to b (a and b share an x or a y).
Segment(a, b) ==
    (Min(a[1], b[1])..Max(a[1], b[1])) \X (Min(a[2], b[2])..Max(a[2], b[2]))

\* The lattice points strictly between a and b.
OpenSegment(a, b) == Segment(a, b) \ {a, b}

Edge(tiles, k) == Segment(tiles[k], NextTile(tiles, k))

\* A simple orthogonal polygon: at least four distinct vertices, axis-aligned
\* edges, consecutive edges meeting in their common vertex only and all other
\* pairs of edges disjoint.  Such a polygon bounds a region without holes.
IsSimplePolygon(tiles) ==
    LET n == Len(tiles)
    IN  /\ n >= 4
        /\ CyclicAxisAligned(tiles)
        /\ \A k, l \in 1..n : k < l => tiles[k] # tiles[l]
        /\ \A k, l \in 1..n : k < l =>
              Edge(tiles, k) \cap Edge(tiles, l) =
                  IF l = k + 1 THEN {tiles[l]}
                  ELSE IF k = 1 /\ l = n THEN {tiles[1]}
                  ELSE {}

\* Every tile of the rectangle with corners a and b is red or green.
AllTilesRedOrGreen(tiles, a, b) ==
    \A t \in Segment(a, b) :
        is_tile_valid(t, TileSet(tiles), build_edge_tiles(tiles), tiles, None)

InclusiveArea(a, b) == (Abs(a[1] - b[1]) + 1) * (Abs(a[2] - b[2]) + 1)

\* The largest inclusive area of a rectangle with two red opposite corners whose
\* tiles are all red or green; 0 when there is none.
LargestValidArea(tiles) ==
    SetMax({0} \cup {InclusiveArea(a, b) : <<a, b>> \in
                {c \in TileSet(tiles) \X TileSet(tiles) :
                    AllTilesRedOrGreen(tiles, c[1], c[2])}})

\* C1: for a simple polygon find_largest_valid_rectangle returns the largest
\* inclusive area of a rectangle with two red opposite corners all of whose
\* tiles are red or green, and 0 when there is none.
C1_ReturnsLargestValidRectangle ==
    (pc = "done" /\ IsSimplePolygon(red_tiles)) =>
        result = LargestValidArea(red_tiles)

\* C2: for a simple polygon and any two corner points the boundary-only
\* validator and the full-area validator return the same boolean.
C2_ValidatorsAgree ==
    (pc = "validated" /\ IsSimplePolygon(red_tiles)) =>
        ans.boundary = ans.full

\* C3: on the empty list and on a list of one point
\* find_largest_valid_rectangle returns 0 and raises nothing.
C3_DegenerateInputReturnsZero ==
    (pc \in {"done", "error"} /\ Len(red_tiles) <= 1) =>
        (pc = "done" /\ result = 0)

\* The union over all cyclic consecutive pairs of the points strictly between them.
OpenEdgeUnion(tiles) ==
    UNION {OpenSegment(tiles[k], NextTile(tiles, k)) : k \in 1..Len(tiles)}

\* C4 as stated: for every cyclically axis-aligned list build_edge_tiles returns
\* the union of the open segments of its edges, and no red tile is in it.
C4_EdgeTilesNeverRed ==
    (pc = "built" /\ CyclicAxisAligned(red_tiles)) =>
        /\ green_edges = OpenEdgeUnion(red_tiles)
        /\ green_edges \cap red_set = {}

\* C4 as amended: for every cyclically axis-aligned list build_edge_tiles returns
\* the union of the open segments of its edges; no red tile is in it when the
\* list is a simple polygon.
C4_EdgeTilesOfSimplePolygon ==
    (pc = "built" /\ CyclicAxisAligned(red_tiles)) =>
        /\ green_edges = OpenEdgeUnion(red_tiles)
        /\ IsSimplePolygon(red_tiles) => green_edges \cap red_set = {}

C4_Witness ==
    /\ pc = "built"
    /\ IsSimplePolygon(red_tiles)
    /\ green_edges # {}

OutsideBox(point, box) ==
    \/ point[1] < box[1] \/ point[1] > box[2]
    \/ point[2] < box[3] \/ point[2] > box[4]

\* C5: for every cyclically axis-aligned list and every point, is_tile_valid
\* with the bounding box of the red tiles equals is_tile_valid without it: a
\* point outside the box is not red, not a green edge tile and not inside by
\* ray casting.
C5_BoundingBoxRejectIsSound ==
    (pc = "classified" /\ CyclicAxisAligned(red_tiles)) =>
        /\ ans.with_bbox = ans.without_bbox
        /\ OutsideBox(q.point, bbox) =>
              /\ q.point \notin red_set
              /\ q.point \notin green_edges
              /\ ~ans.inside

\* A point left of the box whose ray crosses edges of the polygon.
C5_Witness ==
    /\ pc = "classified"
    /\ CyclicAxisAligned(red_tiles)
    /\ OutsideBox(q.point, bbox)
    /\ ans.toggles # {}
    /\ ~ans.with_bbox

\* C6: is_point_in_rectangle(p, c1, c2) is true exactly when p's coordinates
\* are strictly between the corners' smaller and larger coordinates; it is false
\* on the rectangle's boundary and the same with the corners swapped.
C6_StrictInterior ==
    (pc = "answered" /\ q.kind = "in_rectangle") =>
        LET lo_x == IF q.corner1[1] <= q.corner2[1] THEN q.corner1[1] ELSE q.corner2[1]
            hi_x == IF q.corner1[1] <= q.corner2[1] THEN q.corner2[1] ELSE q.corner1[1]
            lo_y == IF q.corner1[2] <= q.corner2[2] THEN q.corner1[2] ELSE q.corner2[2]
            hi_y == IF q.corner1[2] <= q.corner2[2] THEN q.corner2[2] ELSE q.corner1[2]
            on_boundary ==
                /\ q.point[1] \in lo_x..hi_x
                /\ q.point[2] \in lo_y..hi_y
                /\ q.point[1] \in {lo_x, hi_x} \/ q.point[2] \in {lo_y, hi_y}
        IN  /\ ans.value = (/\ q.point[1] \in (lo_x + 1)..(hi_x - 1)
                            /\ q.point[2] \in (lo_y + 1)..(hi_y - 1))
            /\ on_boundary => ~ans.value
            /\ ans.value = is_point_in_rectangle(q.point, q.corner2, q.corner1)

C6_Witness ==
    /\ pc = "answered"
    /\ q.kind = "in_rectangle"
    /\ ans.value
    /\ q.corner1[1] > q.corner2[1]

\* C7: calculate_rectangle_area(p1, p2) = calculate_rectangle_area(p2, p1)
\* = (|x2-x1|+1)*(|y2-y1|+1), which is at least 1.
C7_AreaSymmetric ==
    (pc = "answered" /\ q.kind = "area") =>
        LET dx == IF q.p2[1] >= q.p1[1] THEN q.p2[1] - q.p1[1] ELSE q.p1[1] - q.p2[1]
            dy == IF q.p2[2] >= q.p1[2] THEN q.p2[2] - q.p1[2] ELSE q.p1[2] - q.p2[2]
        IN  /\ ans.value = (dx + 1) * (dy + 1)
            /\ ans.value = calculate_rectangle_area(q.p2, q.p1)
            /\ ans.value >= 1

C7_Witness ==
    /\ pc = "answered"
    /\ q.kind = "area"
    /\ q.p2[1] < q.p1[1]
    /\ q.p2[2] > q.p1[2]
    /\ ans.value > 1

\* The 0-based index pairs a < b of a list of n tiles.
IndexPairs(n) == {c \in (0..(n - 1)) \X (0..(n - 1)) : c[1] < c[2]}

\* Pair c is visited before pair d by the two nested loops.
Before(c, d) == c[1] < d[1] \/ (c[1] = d[1] /\ c[2] < d[2])

PairArea(c) == calculate_rectangle_area(red_tiles[c[1] + 1], red_tiles[c[2] + 1])

\* No red tile at another index is strictly inside the pair's rectangle and the
\* boundary-only validator accepts the pair (on the search's own red set, edge
\* tiles and bounding box).
QualifyingPair(c) ==
    /\ \A k \in 0..(Len(red_tiles) - 1) :
          k \notin {c[1], c[2]} =>
              ~is_point_in_rectangle(red_tiles[k + 1], red_tiles[c[1] + 1],
                                     red_tiles[c[2] + 1])
    /\ is_rectangle_valid_boundary_only(
           red_tiles[c[1] + 1], red_tiles[c[2] + 1], red_set, green_edges,
           red_tiles, bbox)

\* v is 0 or the area of a qualifying pair among `pairs`.
ZeroOrQualifyingArea(v, pairs) ==
    v = 0 \/ \E c \in pairs : PairArea(c) = v /\ QualifyingPair(c)

C8_State ==
    /\ pc = "search" =>
          ZeroOrQualifyingArea(max_area,
              {c \in IndexPairs(Len(red_tiles)) : Before(c, <<i, j>>)})
    /\ (pc = "done" /\ Len(red_tiles) >= 2) =>
          /\ ZeroOrQualifyingArea(result, IndexPairs(Len(red_tiles)))
          /\ \A c \in IndexPairs(Len(red_tiles)) :
                PairArea(c) > result => ~QualifyingPair(c)

\* C8: for every list of at least two points the returned value is the largest
\* area of a qualifying pair (0 when there is none), the skip of pairs whose
\* area is not above max_area notwithstanding; during the loop max_area is 0 or
\* the area of a qualifying pair already examined, and it never decreases.
C8_SkipKeepsResult == [](C8_State) /\ [][max_area' >= max_area]_vars

\* The loop has ended and skipped a qualifying pair that came after the best one.
C8_Witness ==
    /\ pc = "done"
    /\ result > 0
    /\ \E c \in IndexPairs(Len(red_tiles)), d \in IndexPairs(Len(red_tiles)) :
          /\ Before(c, d)
          /\ PairArea(c) = result
          /\ PairArea(d) < result
          /\ QualifyingPair(c)
          /\ QualifyingPair(d)

\* C9: on a cyclically axis-aligned polygon is_point_inside_polygon never
\* divides by zero: no evaluated divisor is 0, and no horizontal or zero-length
\* edge toggles the inside flag.
C9_NoDivisionByZero ==
    (pc = "classified" /\ CyclicAxisAligned(red_tiles)) =>
        /\ ~ans.raises
        /\ 0 \notin ans.divisors
        /\ \A k \in ans.toggles : red_tiles[k][2] # NextTile(red_tiles, k)[2]

\* The point is level with a horizontal edge of non-zero length, the polygon
\* has a zero-length edge too, and some edge toggles the flag.
C9_Witness ==
    /\ pc = "classified"
    /\ \E k \in 1..Len(red_tiles) :
          /\ red_tiles[k][2] = q.point[2]
          /\ NextTile(red_tiles, k)[2] = q.point[2]
          /\ red_tiles[k][1] # NextTile(red_tiles, k)[1]
    /\ \E k \in 1..Len(red_tiles) : red_tiles[k] = NextTile(red_tiles, k)
    /\ ans.toggles # {}

\* The list started r places later.
Rotate(tiles, r) ==
    [k \in 1..Len(tiles) |-> tiles[((k + r - 1) % Len(tiles)) + 1]]

Reverse(tiles) == [k \in 1..Len(tiles) |-> tiles[Len(tiles) + 1 - k]]

\* C10: for a cyclically axis-aligned list of at least one point, every
\* rotation of the list and the reversed list give the same returned area.
C10_RotationAndReversal ==
    (pc = "done" /\ CyclicAxisAligned(red_tiles)) =>
        /\ \A r \in 1..Len(red_tiles) :
              find_largest_valid_rectangle(Rotate(red_tiles, r)) = result
        /\ find_largest_valid_rectangle(Reverse(red_tiles)) = result

C10_Witness ==
    /\ pc = "done"
    /\ CyclicAxisAligned(red_tiles)
    /\ Len(red_tiles) >= 4
    /\ result > 0
    /\ Rotate(red_tiles, 1) # red_tiles
    /\ Reverse(red_tiles) # red_tiles

====
